---- MODULE Spec2Model ----
(***************************************************************************)
(* Ingestion/orchestration layer of the Smart News Aggregator scraper      *)
(* service: Celery tasks (scraping_tasks.py), scrapers (base_scraper.py,   *)
(* rss_scraper.py, api_scraper.py), Celery configuration (celery_app.py),  *)
(* enrichment tasks (processing_tasks.py) and the backend's news and       *)
(* bookmark endpoints.                                                     *)
(*                                                                         *)
(* Specifications:                                                         *)
(*   Spec       one worker process running, one unit of work at a time,    *)
(*              send_articles_to_backend (with its Celery retries) and     *)
(*              BaseScraper.fetch_page (with its recursive retries)        *)
(*   SpecJob    scrape_all_sources runs, from start to return              *)
(*   SpecDedup  successive deduplicate_articles calls                      *)
(*   SpecSched  Celery beat, the 'scraping' queue and the worker pool,     *)
(*              with wall-clock time in minutes                            *)
(*   SpecConn   connector fetches (RSSFeedScraper.scrape,                  *)
(*              NewsAPIScraper._scrape_top_headlines), entry by entry      *)
(*   SpecPolite the requests of the worker processes to one source, with   *)
(*              wall-clock time in seconds                                 *)
(*   SpecLanes  task_routes, the three queues and one worker's pool        *)
(*   SpecMl     process_article / process_articles_batch calls             *)
(*   SpecNews   concurrent create_news, get_news and delete_news requests  *)
(*              of the backend, with the news table and the cache          *)
(*   SpecBookmarks                                                         *)
(*              concurrent add_bookmark / remove_bookmark requests for     *)
(*              one news item                                              *)
(***************************************************************************)
EXTENDS Integers, Sequences, FiniteSets, TLC

VARIABLES
    task,      \* the send_articles_to_backend task instance (request + locals + history)
    backend,   \* the backend collaborator behind POST /api/v1/news/batch
    fetch,     \* one BaseScraper.fetch_page call chain (recursion on retry)
    job,       \* one scrape_all_sources run (locals, stats, history of its inputs)
    dedup,     \* successive deduplicate_articles calls (last call + history)
    sched,     \* Celery beat, the 'scraping' queue and the worker processes
    conn,      \* one connector fetch: RSSFeedScraper.scrape or NewsAPIScraper.scrape
    polite,    \* the requests the worker processes issue to one source, with wall-clock time
    lanes,     \* the three task queues and the worker pools consuming them
    ml,        \* the process_article / process_articles_batch call being followed
    news,      \* the backend's news table, its cache and the requests in progress
    bm         \* the bookmarks table, the news row's counter and the requests in progress

vars == <<task, backend, fetch, job, dedup, sched, conn, polite, lanes,
          ml, news, bm>>

-----------------------------------------------------------------------------
(* Settings and task options *)

\* settings.BATCH_SIZE (config.py:157 sets 10); scaled down, env-configurable
BATCH_SIZE == 2
\* longest article list handed to send_articles_to_backend: three batches, the last one partial
MaxArticles == 2 * BATCH_SIZE + 1
\* settings.MAX_RETRIES
MAX_RETRIES == 3
\* @app.task(max_retries=5) of send_articles_to_backend
DeliveryMaxRetries == 5
\* settings.RETRY_DELAY, seconds
RETRY_DELAY == 5
\* `countdown=60` of self.retry in send_articles_to_backend, seconds
RetryCountdown == 60

\* number of batches of the longest article list
MaxBatches == (MaxArticles + BATCH_SIZE - 1) \div BATCH_SIZE

Min(a, b) == IF a < b THEN a ELSE b

-----------------------------------------------------------------------------
(* Articles *)

\* Article._generate_hash: md5 of the concatenation title + url. md5 is taken
\* to be injective on the byte strings that occur, so the digest is
\* represented by the concatenated string itself.
GenerateHash(t, u) == t \o u

\* faulty variant, for sensitivity analysis: the digest also covers the content
ArticleHashingContent(t, u, w, l) ==
    [type |-> "Article", title |-> t, url |-> u, words |-> w, language |-> l,
     content_hash |-> GenerateHash(t, u) \o <<w>>]

\* Article.__init__: the fields the pipeline reads. title and url are strings,
\* modelled as sequences of characters; words is len(content.split()).
Article(t, u, w, l) ==
    [type |-> "Article", title |-> t, url |-> u, words |-> w, language |-> l,
     content_hash |-> GenerateHash(t, u)]

\* Article.to_dict: a plain dict with the same data (keys, not attributes)
ToDict(a) == [a EXCEPT !.type = "dict"]

\* the i-th of a family of pairwise different article dicts
ArticleNo(i) == ToDict(Article(<<i>>, <<i>>, 50, "en"))

\* the argument of send_articles_to_backend: n pairwise different dicts
DictList(n) == [i \in 1..n |-> ArticleNo(i)]

-----------------------------------------------------------------------------
(* Backend collaborator: what POST /api/v1/news/batch answers *)

\* response kinds: 2xx, 500, a 4xx other than 429, 429, timeout / connection error
FailureKinds == {"s500", "s4xx", "s429", "timeout"}

\* the first failfirst POSTs fail with `kind`; a POST carrying batch number
\* `bad` always fails with `kind` (0: no such batch); every other POST is
\* answered 2xx. created: whether the 2xx body carries a 'created' count
\* ("absent": no such key, "zero": created = 0, "all": created = len(batch)).
BackendConfigs ==
    [failfirst : 0..(DeliveryMaxRetries + 1), kind : FailureKinds,
     bad : 0..MaxBatches, created : {"absent", "zero", "all"}]

\* response to the n-th POST the backend receives, carrying batch number i
Respond(cfg, i, n) ==
    IF n <= cfg.failfirst \/ i = cfg.bad THEN cfg.kind ELSE "ok"

\* result.get('created', len(batch))
Created(cfg, batch) ==
    CASE cfg.created = "absent" -> Len(batch)
      [] cfg.created = "zero"   -> 0
      [] cfg.created = "all"    -> Len(batch)

-----------------------------------------------------------------------------
(* send_articles_to_backend *)

\* number of batches: len(range(0, len(articles), batch_size))
NumBatches(articles) == (Len(articles) + BATCH_SIZE - 1) \div BATCH_SIZE

\* faulty variant, for sensitivity analysis: the slices end one article late,
\* articles[i:i + batch_size + 1]
BatchesOverlapping(articles) ==
    [k \in 1..NumBatches(articles) |->
        SubSeq(articles, (k - 1) * BATCH_SIZE + 1, Min(k * BATCH_SIZE + 1, Len(articles)))]

\* batches = [articles[i:i + batch_size] for i in range(0, len(articles), batch_size)]
Batches(articles) ==
    [k \in 1..NumBatches(articles) |->
        SubSeq(articles, (k - 1) * BATCH_SIZE + 1, Min(k * BATCH_SIZE, Len(articles)))]

\* One execution of the body's loop `for i, batch in enumerate(batches)` from
\* batch i on. acc: sent_count so far, POSTs made, batches acknowledged and
\* the batches posted, in the order posted (each as its articles), in this
\* execution. received: POSTs the backend got before this execution.
\* raise_for_status() raises on any 4xx/5xx, client.post raises on timeout:
\* either leaves the loop, and the batches after i are not posted.
RECURSIVE SendLoop(_, _, _, _, _)
SendLoop(batches, i, acc, cfg, received) ==
    IF i > Len(batches)
    THEN acc
    ELSE LET r == Respond(cfg, i, received + acc.posts + 1)
         IN  IF r = "ok"
             THEN SendLoop(batches, i + 1,
                           [acc EXCEPT !.posts = @ + 1,
                                       !.sent_count = @ + Created(cfg, batches[i]),
                                       !.acked = @ \cup {i},
                                       !.posted = Append(@, batches[i])],
                           cfg, received)
             ELSE [acc EXCEPT !.posts = @ + 1, !.raised = TRUE,
                              !.error = r, !.failed_at = i,
                              !.posted = Append(@, batches[i])]

\* the try block of one execution of the task body
SendOnce(articles, cfg, received) ==
    SendLoop(Batches(articles), 1,
             [raised |-> FALSE, error |-> "none", failed_at |-> 0,
              sent_count |-> 0, posts |-> 0, acked |-> {}, posted |-> <<>>],
             cfg, received)

\* celery Task.retry as called at `raise self.retry(exc=exc, countdown=60)`:
\* a task called directly (not run by a worker) re-raises exc; a task run by
\* a worker is sent again with retries + 1 unless that exceeds max_retries,
\* in which case exc is raised.
RetryDecision(called_directly, retries) ==
    IF called_directly THEN "raise"
    ELSE IF retries + 1 > DeliveryMaxRetries THEN "raise"
    ELSE "requeue"

TaskIdle ==
    [pc |-> "idle", called_directly |-> FALSE, articles |-> <<>>, retries |-> 0,
     executions |-> 0, result |-> 0, error |-> "none", acked |-> {},
     last_acked |-> {}, last_posted |-> <<>>, posts |-> 0, posts_after_4xx |-> 0,
     seen_4xx |-> FALSE, countdowns |-> <<>>]

BackendIdle ==
    [cfg |-> [failfirst |-> 0, kind |-> "s500", bad |-> 0, created |-> "absent"],
     received |-> 0]

\* send_articles_to_backend.delay(articles) (run by a worker) or
\* send_articles_to_backend(articles) (called directly, as scrape_all_sources does)
DeliverSubmit(direct, n, cfg) ==
    /\ task.pc = "idle"
    /\ fetch.pc = "idle"
    /\ task' = [TaskIdle EXCEPT !.pc = "ready", !.called_directly = direct,
                                !.articles = DictList(n)]
    /\ backend' = [cfg |-> cfg, received |-> 0]
    /\ UNCHANGED <<fetch, job, dedup, sched, conn, polite, lanes, ml, news, bm>>

\* one execution of the task body, first or after a retry
DeliverExecute ==
    /\ task.pc \in {"ready", "retry"}
    /\ IF task.articles = <<>>
       THEN \* if not articles: return 0
            /\ task' = [task EXCEPT !.pc = "done", !.result = 0,
                                    !.executions = @ + 1, !.last_acked = {},
                                    !.last_posted = <<>>]
            /\ UNCHANGED backend
       ELSE LET run == SendOnce(task.articles, backend.cfg, backend.received)
                hist == [task EXCEPT
                           !.executions = @ + 1,
                           !.posts = @ + run.posts,
                           !.acked = @ \cup run.acked,
                           !.last_acked = run.acked,
                           !.last_posted = run.posted,
                           !.posts_after_4xx =
                               IF task.seen_4xx THEN @ + run.posts ELSE @,
                           !.seen_4xx = @ \/ (run.raised /\ run.error = "s4xx")]
            IN  /\ backend' = [backend EXCEPT !.received = @ + run.posts]
                /\ IF ~run.raised
                   THEN task' = [hist EXCEPT !.pc = "done", !.result = run.sent_count]
                   ELSE IF RetryDecision(task.called_directly, task.retries) = "requeue"
                        THEN task' = [hist EXCEPT !.pc = "retry", !.retries = @ + 1,
                                                  !.error = run.error,
                                                  !.countdowns =
                                                      Append(@, RetryCountdown)]
                        ELSE task' = [hist EXCEPT !.pc = "failed", !.error = run.error]
    /\ UNCHANGED <<fetch, job, dedup, sched, conn, polite, lanes, ml, news, bm>>

\* scrape_all_sources around its direct call of the task:
\* stats['sent_to_backend'] starts at 0 and is assigned the returned
\* sent_count; when the call raises, `except Exception` only counts an error
ReportedSent(t) == IF t.pc = "done" THEN t.result ELSE 0

\* the task instance reached a final state; the worker takes the next unit of work
DeliverForget ==
    /\ task.pc \in {"done", "failed"}
    /\ task' = TaskIdle
    /\ backend' = BackendIdle
    /\ UNCHANGED <<fetch, job, dedup, sched, conn, polite, lanes, ml, news, bm>>

-----------------------------------------------------------------------------
(* BaseScraper.fetch_page *)

FetchIdle ==
    [pc |-> "idle", retry |-> 0, calls |-> 0, failfirst |-> 0, kind |-> "s500",
     result |-> "none", calls_after_4xx |-> 0, seen_4xx |-> FALSE, sleeps |-> 0,
     waits |-> <<>>]

\* faulty variant, for sensitivity analysis: the retry test off by one
ShouldRetryInclusive(retry) == retry <= MAX_RETRIES

\* `if retry < settings.MAX_RETRIES:` in the except branch
ShouldRetry(retry) == retry < MAX_RETRIES

\* scraper.fetch_page(url): the server fails the first k requests with `kind`
FetchStart(k, kind) ==
    /\ fetch.pc = "idle"
    /\ task.pc = "idle"
    /\ fetch' = [FetchIdle EXCEPT !.pc = "call", !.failfirst = k, !.kind = kind]
    /\ UNCHANGED <<task, backend, job, dedup, sched, conn, polite, lanes, ml, news, bm>>

\* one activation of fetch_page(url, retry): session.get + raise_for_status,
\* then return response.text, or in `except requests.RequestException` recurse
\* with retry + 1 or return None.
FetchAttempt ==
    /\ fetch.pc = "call"
    /\ LET n == fetch.calls + 1
           failed == n <= fetch.failfirst
           hist == [fetch EXCEPT
                      !.calls = n,
                      !.calls_after_4xx = IF fetch.seen_4xx THEN @ + 1 ELSE @,
                      !.seen_4xx = @ \/ (failed /\ fetch.kind = "s4xx")]
       IN  IF ~failed
           THEN fetch' = [hist EXCEPT !.pc = "done", !.result = "text"]
           ELSE IF ShouldRetry(fetch.retry)
                THEN \* time.sleep(settings.RETRY_DELAY)
                     fetch' = [hist EXCEPT !.retry = @ + 1, !.sleeps = @ + 1,
                                           !.waits = Append(@, RETRY_DELAY)]
                ELSE fetch' = [hist EXCEPT !.pc = "done", !.result = "None"]
    /\ UNCHANGED <<task, backend, job, dedup, sched, conn, polite, lanes, ml, news, bm>>

\* the caller has the result; the call chain is gone
FetchForget ==
    /\ fetch.pc = "done"
    /\ fetch' = FetchIdle
    /\ UNCHANGED <<task, backend, job, dedup, sched, conn, polite, lanes, ml, news, bm>>

-----------------------------------------------------------------------------
(* Scrapers: RSSFeedScraper.scrape, BaseScraper.run, MultiFeedScraper *)

\* settings.MIN_ARTICLE_LENGTH
MIN_ARTICLE_LENGTH == 50
\* most entries of one feed document / API response
MaxEntries == 2

\* settings.RSS_FEEDS in dict order; two of the six configured feeds
RSS_FEEDS == <<"bbc", "cnn">>

\* all sequences over S of length at most n
SeqsUpTo(S, n) == UNION {[1..k -> S] : k \in 0..n}

\* the articles the sources carry: one with enough content, one too short
SourceArticles ==
    {Article(<<1>>, <<2>>, MIN_ARTICLE_LENGTH, "en"),
     Article(<<3>>, <<4>>, MIN_ARTICLE_LENGTH - 1, "en")}

\* what a source answers: ok = FALSE (feedparser.parse / the API client
\* raises) or the articles its entries parse to
NoResponse == [ok |-> FALSE, entries |-> <<>>]
SourceResponses ==
    {NoResponse} \cup {[ok |-> TRUE, entries |-> e] : e \in SeqsUpTo(SourceArticles, MaxEntries)}

\* settings.ALLOWED_LANGUAGES
ALLOWED_LANGUAGES == {"en"}
\* settings.BLACKLIST_KEYWORDS; a keyword is modelled as one title character
BLACKLIST_KEYWORDS == {9}

\* config.is_allowed_language (module-level function)
IsAllowedLanguage(language) == language \in ALLOWED_LANGUAGES

\* config.is_blacklisted (module-level function): a keyword occurs in the title
IsBlacklisted(title) == \E i \in 1..Len(title) : title[i] \in BLACKLIST_KEYWORDS

\* Article.is_valid: "True", "False" or "raise". settings is the Settings
\* instance of config.py; is_allowed_language and is_blacklisted are
\* module-level functions of config.py, not attributes of Settings, so the
\* lookup settings.is_allowed_language raises AttributeError for every
\* article that passes the title/url and length tests.
IsValid(a) ==
    IF a.title = <<>> \/ a.url = <<>> THEN "False"
    ELSE IF a.words < MIN_ARTICLE_LENGTH THEN "False"
    ELSE "raise"

\* RSSFeedScraper.scrape / NewsAPIScraper.scrape: the try/except around the
\* request returns the articles parsed so far (none) when it raises
Scrape(response) == IF ~response.ok THEN <<>> ELSE response.entries

\* BaseScraper.run: scrape, keep the valid articles; `except Exception`
\* returns [] when scrape() or a validate_article call raises
Run(response) ==
    LET articles == Scrape(response)
    IN  IF \E i \in 1..Len(articles) : IsValid(articles[i]) = "raise"
        THEN <<>>
        ELSE SelectSeq(articles, LAMBDA a : IsValid(a) = "True")

\* MultiFeedScraper.scrape_all: every scraper of self.scrapers in turn,
\* all_articles.extend(scraper.run()); from the k-th feed on
RECURSIVE ScrapeAll(_, _, _)
ScrapeAll(responses, k, acc) ==
    IF k > Len(RSS_FEEDS) THEN acc
    ELSE ScrapeAll(responses, k + 1,
                   [articles |-> acc.articles \o Run(responses[RSS_FEEDS[k]]),
                    attempted |-> acc.attempted \cup {RSS_FEEDS[k]}])

\* [article.to_dict() for article in articles]
ToDicts(articles) == [i \in 1..Len(articles) |-> ToDict(articles[i])]

-----------------------------------------------------------------------------
(* Connectors: one fetch of RSSFeedScraper.scrape / NewsAPIScraper.scrape,  *)
(* entry by entry                                                          *)

\* settings.SCRAPE_LAST_N_HOURS
SCRAPE_LAST_N_HOURS == 24
\* most entries of the response of one connector fetch
MaxConnEntries == 2

\* age in hours of an entry's publication time; -1: no usable date
EntryAges == {0 - 1, SCRAPE_LAST_N_HOURS - 1, SCRAPE_LAST_N_HOURS, 40 * 24}

\* the entries of a feed document / the items of an API response.
\* broken: a field the parsing code dereferences has the wrong shape
\* (RSS: entry.content[0] without .value, a media/enclosure list of
\* non-dicts; API: "description" and "content" null, so that
\* title + ' ' + content and clean_text(None) raise)
\* words: len(content.split()) of the entry's content
RawEntries ==
    [title : {<<>>, <<1>>}, url : {<<2>>}, broken : BOOLEAN, age : EntryAges,
     words : {MIN_ARTICLE_LENGTH - 1, MIN_ARTICLE_LENGTH}]

\* what the source answers to the one request of a fetch: ok = FALSE is a
\* transport-level failure (feedparser.parse / get_top_headlines raises)
ConnResponses ==
    {[ok |-> FALSE, entries |-> <<>>]} \cup
    {[ok |-> TRUE, entries |-> e] : e \in SeqsUpTo(RawEntries, MaxConnEntries)}

\* published_at of the Article built from entry e: its date, or
\* datetime.utcnow() when it has none
PublishedAge(e) == IF e.age < 0 THEN 0 ELSE e.age

\* BaseScraper.is_recent: age < timedelta(hours=settings.SCRAPE_LAST_N_HOURS)
IsRecent(age) == age < SCRAPE_LAST_N_HOURS

\* the Article both parsers build, with its published_at (as an age)
EntryArticle(e) ==
    Article(e.title, e.url, e.words, "en") @@ [age |-> PublishedAge(e)]

\* what a parser call does: returns None, raises, or returns an Article
Parsed(kind, e) == [kind |-> kind, article |-> EntryArticle(e)]

\* RSSFeedScraper._parse_entry
ParseEntry(e) ==
    IF e.title = <<>> \/ e.url = <<>> THEN Parsed("None", e)
    ELSE IF e.broken THEN Parsed("raise", e)
    ELSE IF ~IsRecent(PublishedAge(e)) THEN Parsed("None", e)
    ELSE Parsed("Article", e)

\* NewsAPIScraper._parse_api_article; it never looks at the age of
\* published_at
ParseApiArticle(e) ==
    IF e.title = <<>> \/ e.url = <<>> THEN Parsed("None", e)
    ELSE IF e.broken THEN Parsed("raise", e)
    ELSE Parsed("Article", e)

\* RSSFeedScraper.scrape, the loop over feed.entries from the i-th on: each
\* _parse_entry call is inside try/except Exception: continue
RECURSIVE RssEntryLoop(_, _, _)
RssEntryLoop(entries, i, articles) ==
    IF i > Len(entries) THEN articles
    ELSE LET r == ParseEntry(entries[i])
         IN  RssEntryLoop(entries, i + 1,
                          IF r.kind = "Article" THEN Append(articles, r.article)
                          ELSE articles)

\* NewsAPIScraper._scrape_top_headlines, the loop over response['articles']
\* from the i-th on: a raising _parse_api_article ends the loop in the
\* function's `except Exception`, which returns the articles appended so far
RECURSIVE ApiItemLoop(_, _, _)
ApiItemLoop(items, i, articles) ==
    IF i > Len(items) THEN articles
    ELSE LET r == ParseApiArticle(items[i])
         IN  IF r.kind = "raise" THEN articles
             ELSE ApiItemLoop(items, i + 1,
                              IF r.kind = "None" THEN articles
                              ELSE Append(articles, r.article))

ConnVariants == {"rss", "api"}

ConnIdle ==
    [pc |-> "idle", variant |-> "rss", response |-> [ok |-> FALSE, entries |-> <<>>],
     articles |-> <<>>, requests |-> 0, raised |-> FALSE]

\* one scrape() call of a connector: one request (feedparser.parse(feed_url)
\* or client.get_top_headlines), then the entry loop; a raising request is
\* caught and logged by the function's own except clause and [] is returned
ConnScrape(variant, response) ==
    /\ conn.pc = "idle"
    /\ conn' = [pc |-> "done", variant |-> variant, response |-> response,
                articles |-> IF ~response.ok THEN <<>>
                             ELSE IF variant = "rss"
                                  THEN RssEntryLoop(response.entries, 1, <<>>)
                                  ELSE ApiItemLoop(response.entries, 1, <<>>),
                requests |-> 1, raised |-> FALSE]
    /\ UNCHANGED <<task, backend, fetch, job, dedup, sched, polite, lanes, ml, news, bm>>

\* the caller drops the result
ConnForget ==
    /\ conn.pc = "done"
    /\ conn' = ConnIdle
    /\ UNCHANGED <<task, backend, fetch, job, dedup, sched, polite, lanes, ml, news, bm>>

-----------------------------------------------------------------------------
(* Politeness: the requests worker processes issue to one source, on a      *)
(* wall clock counted in seconds                                           *)

\* settings.REQUESTS_PER_SECOND (read nowhere in the service)
REQUESTS_PER_SECOND == 2
\* settings.DOWNLOAD_DELAY, seconds
DOWNLOAD_DELAY == 1
\* worker processes (celery -A app.celery_app worker --concurrency=N)
NumProcs == 2
\* the clock stops here
MaxNow == 16
\* longest time a request takes to be answered, seconds
MaxLatency == 1

Procs == 1..NumProcs

\* the stricter of 1/REQUESTS_PER_SECOND seconds and DOWNLOAD_DELAY, in
\* whole seconds: DOWNLOAD_DELAY unless 1/REQUESTS_PER_SECOND exceeds it
PolitenessLimit ==
    IF DOWNLOAD_DELAY * REQUESTS_PER_SECOND >= 1 THEN DOWNLOAD_DELAY ELSE 1

\* a process: wake = when its current request and the time.sleep after it
\* end, retry = fetch_page's retry argument, last = time of its last
\* request to the source (-1: none yet)
ProcIdle == [wake |-> 0, retry |-> 0, last |-> 0 - 1]

\* last / last_by: the latest request to the source and its process;
\* own_gap: time between the latest request and the request before it of
\* the same process; cross_gap: time between the latest request and the
\* request before it, when another process issued that one; -1: no such
\* pair of requests
PoliteIdle ==
    [now |-> 0, procs |-> [p \in Procs |-> ProcIdle], last |-> 0 - 1, last_by |-> 0,
     own_gap |-> 0 - 1, cross_gap |-> 0 - 1, path |-> "none", requests |-> 0]

\* the bookkeeping of a request that process p issues now
Issue(p, path, wake, retry) ==
    [polite EXCEPT
        !.procs[p] = [wake |-> wake, retry |-> retry, last |-> polite.now],
        !.last = polite.now,
        !.last_by = p,
        !.own_gap = IF polite.procs[p].last < 0 THEN 0 - 1
                    ELSE polite.now - polite.procs[p].last,
        !.cross_gap = IF polite.last < 0 \/ polite.last_by = p THEN 0 - 1
                      ELSE polite.now - polite.last,
        !.path = path,
        !.requests = Min(@ + 1, 2)]

\* BaseScraper.fetch_page, one session.get answered after `latency`: on
\* success time.sleep(DOWNLOAD_DELAY) and return; on RequestException
\* time.sleep(RETRY_DELAY) and recurse while retry < MAX_RETRIES, else
\* return None at once
PoliteFetchPage(p, ok, latency) ==
    /\ polite.now >= polite.procs[p].wake
    /\ polite' =
         IF ok THEN Issue(p, "fetch_page", polite.now + latency + DOWNLOAD_DELAY, 0)
         ELSE IF ShouldRetry(polite.procs[p].retry)
              THEN Issue(p, "fetch_page", polite.now + latency + RETRY_DELAY,
                         polite.procs[p].retry + 1)
              ELSE Issue(p, "fetch_page", polite.now + latency, 0)
    /\ UNCHANGED <<task, backend, fetch, job, dedup, sched, conn, lanes, ml, news, bm>>

\* RSSFeedScraper.scrape: feedparser.parse(self.feed_url) issues the request
\* itself, without fetch_page and without any sleep
PoliteFeedParse(p, latency) ==
    /\ polite.now >= polite.procs[p].wake
    /\ polite.procs[p].retry = 0
    /\ polite' = Issue(p, "feedparser", polite.now + latency, polite.procs[p].retry)
    /\ UNCHANGED <<task, backend, fetch, job, dedup, sched, conn, lanes, ml, news, bm>>

\* the wall clock
PoliteTick ==
    /\ polite.now < MaxNow
    /\ polite' = [polite EXCEPT !.now = @ + 1]
    /\ UNCHANGED <<task, backend, fetch, job, dedup, sched, conn, lanes, ml, news, bm>>

-----------------------------------------------------------------------------
(* Lanes: task_routes, the three queues and the pool of one worker started  *)
(* with one of the documented commands                                     *)

\* slots of the worker's pool (--concurrency)
LanePoolSize == 2
\* most messages waiting in one queue
MaxQueued == 2

LaneSlots == 1..LanePoolSize

\* the tasks of app/tasks, by module
LaneTasks ==
    [module : {"scraping_tasks"}, name : {"scrape_all_sources", "scrape_rss_feeds"}] \cup
    [module : {"processing_tasks"}, name : {"process_article"}] \cup
    [module : {"cleanup_tasks"}, name : {"cleanup_old_data", "cleanup_cache"}]

\* app.conf.task_routes: 'app.tasks.<module>.*' -> queue
Route(t) ==
    CASE t.module = "scraping_tasks" -> "scraping"
      [] t.module = "processing_tasks" -> "processing"
      [] t.module = "cleanup_tasks" -> "cleanup"

LaneQueues == {"scraping", "processing", "cleanup"}

\* the queues a worker consumes: `celery -A app.celery_app worker` (no -Q:
\* the default queue 'celery' only), `worker -Q scraping,processing`, and
\* one worker for one lane
WorkerCommands ==
    {{"celery"}, {"scraping", "processing"}} \cup {{q} : q \in LaneQueues}

LanesIdle ==
    [consumes |-> {}, queue |-> [q \in LaneQueues |-> 0],
     pool |-> [i \in LaneSlots |-> "none"], routed |-> "none", sent |-> "none"]

\* celery worker -Q ...
LaneStartWorker(consumes) ==
    /\ lanes.consumes = {}
    /\ lanes' = [lanes EXCEPT !.consumes = consumes]
    /\ UNCHANGED <<task, backend, fetch, job, dedup, sched, conn, polite, ml, news, bm>>

\* apply_async / beat: the message goes to the queue of its route
LaneSend(t) ==
    /\ lanes.queue[Route(t)] < MaxQueued
    /\ lanes' = [lanes EXCEPT !.queue[Route(t)] = @ + 1,
                              !.routed = Route(t), !.sent = t.module]
    /\ UNCHANGED <<task, backend, fetch, job, dedup, sched, conn, polite, ml, news, bm>>

\* a free pool slot of the worker takes a message of a queue it consumes
LaneTake(i, q) ==
    /\ q \in lanes.consumes
    /\ lanes.queue[q] > 0
    /\ lanes.pool[i] = "none"
    /\ lanes' = [lanes EXCEPT !.queue[q] = @ - 1, !.pool[i] = q]
    /\ UNCHANGED <<task, backend, fetch, job, dedup, sched, conn, polite, ml, news, bm>>

\* the task of a slot returns (a stuck task never does, until task_time_limit)
LaneFinish(i) ==
    /\ lanes.pool[i] # "none"
    /\ lanes' = [lanes EXCEPT !.pool[i] = "none"]
    /\ UNCHANGED <<task, backend, fetch, job, dedup, sched, conn, polite, ml, news, bm>>

\* the worker is stopped; the queues keep their messages
LaneStopWorker ==
    /\ lanes.consumes # {}
    /\ \A i \in LaneSlots : lanes.pool[i] = "none"
    /\ lanes' = [lanes EXCEPT !.consumes = {}]
    /\ UNCHANGED <<task, backend, fetch, job, dedup, sched, conn, polite, ml, news, bm>>

-----------------------------------------------------------------------------
(* deduplicate_articles *)

\* the loop body for articles[i..]; st: seen_urls, seen_hashes, unique.
\* article.url / article.content_hash are attribute reads: on a dict they
\* raise AttributeError, which nothing in deduplicate_articles catches.
\* faulty variant, for sensitivity analysis: the value is never recorded
AddSeenNothing(seen, x) == seen

\* seen_urls.add(article.url) / seen_hashes.add(article.content_hash)
AddSeen(seen, x) == seen \cup {x}

RECURSIVE DedupLoop(_, _, _, _, _)
DedupLoop(articles, i, st, by_url, by_title) ==
    IF i > Len(articles) THEN st
    ELSE LET a == articles[i]
         IN  IF (by_url \/ by_title) /\ a.type # "Article"
             THEN [st EXCEPT !.raised = TRUE]
             ELSE IF by_url /\ a.url \in st.seen_urls
             THEN DedupLoop(articles, i + 1, st, by_url, by_title)
             ELSE LET st1 == IF by_url
                             THEN [st EXCEPT !.seen_urls = AddSeen(@, a.url)]
                             ELSE st
                  IN  IF by_title /\ a.content_hash \in st1.seen_hashes
                      THEN DedupLoop(articles, i + 1, st1, by_url, by_title)
                      ELSE DedupLoop(articles, i + 1,
                                     [st1 EXCEPT
                                        !.seen_hashes =
                                            IF by_title THEN AddSeen(@, a.content_hash) ELSE @,
                                        !.unique = Append(@, a)],
                                     by_url, by_title)

\* deduplicate_articles(articles) under settings.CHECK_DUPLICATES_BY_URL /
\* CHECK_DUPLICATES_BY_TITLE; seen_urls and seen_hashes start empty at every call
DeduplicateArticles(articles, by_url, by_title) ==
    DedupLoop(articles, 1,
              [raised |-> FALSE, seen_urls |-> {}, seen_hashes |-> {}, unique |-> <<>>],
              by_url, by_title)

-----------------------------------------------------------------------------
(* scrape_all_sources *)

\* Settings fields read from the environment that the job branches on
JobSettings ==
    [NEWS_API_KEY : BOOLEAN, CHECK_DUPLICATES_BY_URL : BOOLEAN,
     CHECK_DUPLICATES_BY_TITLE : BOOLEAN]

\* the backend as the job's delivery call may find it
JobBackendConfigs ==
    {c \in BackendConfigs :
        c.failfirst <= 1 /\ c.kind = "s500" /\ c.bad = 0 /\ c.created = "absent"}

JobIdle ==
    [pc |-> "idle",
     settings |-> [NEWS_API_KEY |-> FALSE, CHECK_DUPLICATES_BY_URL |-> TRUE,
                   CHECK_DUPLICATES_BY_TITLE |-> TRUE],
     stats |-> [total_articles |-> 0, rss_articles |-> 0, api_articles |-> 0,
                sent_to_backend |-> 0, errors |-> 0],
     all_articles |-> <<>>,
     feeds |-> <<>>, rss_raised |-> "no", attempted |-> {},
     api |-> NoResponse, api_raised |-> FALSE, api_called |-> FALSE,
     dedup_called |-> FALSE, deduped_out |-> 0, send_called |-> FALSE,
     backend_cfg |-> BackendIdle.cfg]

\* the task starts: stats = {...zeros...}, all_articles = []
JobStart(settings) ==
    /\ job.pc = "idle"
    /\ job' = [JobIdle EXCEPT !.pc = "rss", !.settings = settings]
    /\ UNCHANGED <<task, backend, fetch, dedup, sched, conn, polite, lanes, ml, news, bm>>

\* faulty variant, for sensitivity analysis: an exception of scrape_rss_feeds ends the job at once
JobScrapeRssAbort(responses, raises) ==
    /\ job.pc = "rss"
    /\ LET got == IF raises = "setup"
                  THEN [articles |-> <<>>, attempted |-> {}]
                  ELSE ScrapeAll(responses, 1, [articles |-> <<>>, attempted |-> {}])
           j == [job EXCEPT !.feeds = responses, !.attempted = got.attempted,
                            !.rss_raised = raises]
       IN  IF raises # "no"
           THEN job' = [j EXCEPT !.pc = "done", !.stats.errors = @ + 1]
           ELSE job' = [j EXCEPT !.pc = "api",
                                 !.all_articles = @ \o ToDicts(got.articles),
                                 !.stats.rss_articles = Len(got.articles)]
    /\ UNCHANGED <<task, backend, fetch, dedup, sched, conn, polite, lanes, ml, news, bm>>

\* first try block: rss_articles = scrape_rss_feeds(), extend, count; any
\* exception is logged and counted in stats['errors']. scrape_rss_feeds
\* re-raises whatever escapes MultiFeedScraper: raises = "setup" when
\* MultiFeedScraper() raises before any feed is scraped, "late" when the call
\* raises after scrape_all() (e.g. a soft time limit signal), "no" otherwise.
JobScrapeRss(responses, raises) ==
    /\ job.pc = "rss"
    /\ LET got == IF raises = "setup"
                  THEN [articles |-> <<>>, attempted |-> {}]
                  ELSE ScrapeAll(responses, 1, [articles |-> <<>>, attempted |-> {}])
           j == [job EXCEPT !.pc = "api", !.feeds = responses,
                            !.attempted = got.attempted, !.rss_raised = raises]
       IN  IF raises # "no"
           THEN job' = [j EXCEPT !.stats.errors = @ + 1]
           ELSE job' = [j EXCEPT !.all_articles = @ \o ToDicts(got.articles),
                                 !.stats.rss_articles = Len(got.articles)]
    /\ UNCHANGED <<task, backend, fetch, dedup, sched, conn, polite, lanes, ml, news, bm>>

\* faulty variant, for sensitivity analysis: the News API block without its try/except
JobScrapeApiNoTry(response, raises) ==
    /\ job.pc = "api"
    /\ IF ~job.settings.NEWS_API_KEY
       THEN job' = [job EXCEPT !.pc = "process"]
       ELSE LET got == Run(response)
                j == [job EXCEPT !.pc = "process", !.api = response,
                                 !.api_called = TRUE, !.api_raised = raises]
            IN  IF raises
                THEN job' = [j EXCEPT !.pc = "raised"]
                ELSE job' = [j EXCEPT !.all_articles = @ \o ToDicts(got),
                                      !.stats.api_articles = Len(got)]
    /\ UNCHANGED <<task, backend, fetch, dedup, sched, conn, polite, lanes, ml, news, bm>>

\* second try block: if settings.NEWS_API_KEY: api_articles = scrape_news_api()
\* (NewsAPIScraper() then scraper.run()); any exception is counted.
\* raises: NewsAPIScraper() or NewsApiClient() raises.
JobScrapeApi(response, raises) ==
    /\ job.pc = "api"
    /\ IF ~job.settings.NEWS_API_KEY
       THEN job' = [job EXCEPT !.pc = "process"]
       ELSE LET got == Run(response)
                j == [job EXCEPT !.pc = "process", !.api = response,
                                 !.api_called = TRUE, !.api_raised = raises]
            IN  IF raises
                THEN job' = [j EXCEPT !.stats.errors = @ + 1]
                ELSE job' = [j EXCEPT !.all_articles = @ \o ToDicts(got),
                                      !.stats.api_articles = Len(got)]
    /\ UNCHANGED <<task, backend, fetch, dedup, sched, conn, polite, lanes, ml, news, bm>>

\* step 3: stats['total_articles'] = len(all_articles); if all_articles:
\* deduplicate_articles (outside any try), then send_articles_to_backend
\* called directly inside try/except; return stats.
JobProcess(cfg) ==
    /\ job.pc = "process"
    /\ LET j == [job EXCEPT !.stats.total_articles = Len(job.all_articles),
                            !.backend_cfg = cfg]
       IN  IF job.all_articles = <<>>
           THEN job' = [j EXCEPT !.pc = "done"]
           ELSE LET d == DeduplicateArticles(job.all_articles,
                                             job.settings.CHECK_DUPLICATES_BY_URL,
                                             job.settings.CHECK_DUPLICATES_BY_TITLE)
                IN  IF d.raised
                    THEN job' = [j EXCEPT !.pc = "raised", !.dedup_called = TRUE]
                    ELSE LET run == SendOnce(d.unique, cfg, 0)
                             k == [j EXCEPT
                                     !.pc = "done", !.dedup_called = TRUE,
                                     !.send_called = TRUE,
                                     !.deduped_out = Len(job.all_articles) - Len(d.unique)]
                         IN  IF run.raised /\ RetryDecision(TRUE, 0) = "raise"
                             THEN job' = [k EXCEPT !.stats.errors = @ + 1]
                             ELSE job' = [k EXCEPT !.stats.sent_to_backend = run.sent_count]
    /\ UNCHANGED <<task, backend, fetch, dedup, sched, conn, polite, lanes, ml, news, bm>>

\* the result was returned (or the exception raised) to the caller
JobForget ==
    /\ job.pc \in {"done", "raised"}
    /\ job' = JobIdle
    /\ UNCHANGED <<task, backend, fetch, dedup, sched, conn, polite, lanes, ml, news, bm>>

-----------------------------------------------------------------------------
(* Successive deduplicate_articles calls, as successive jobs make them *)

\* longest list passed to one deduplicate_articles call
MaxDedupLen == 2
\* number of successive calls followed
MaxDedupCalls == 2

\* two titles and two urls with title1 + url2 = title2 + url1 as strings
DedupTitles == {<<1>>, <<1, 2>>}
DedupUrls == {<<3>>, <<2, 3>>}
DedupUniverse ==
    {Article(t, u, MIN_ARTICLE_LENGTH, "en") : t \in DedupTitles, u \in DedupUrls}

Range(seq) == {seq[i] : i \in 1..Len(seq)}

DedupIdle ==
    [calls |-> 0, input |-> <<>>, by_url |-> TRUE, by_title |-> TRUE,
     raised |-> FALSE, unique |-> <<>>, seen_urls |-> {}, seen_hashes |-> {},
     passed |-> {}, repassed |-> FALSE]

\* unique = deduplicate_articles(articles); passed: the articles earlier calls
\* returned; repassed: this call returned one of them again
DedupCall(articles, by_url, by_title) ==
    /\ dedup.calls < MaxDedupCalls
    \* settings is built once, when the process imports app.config
    /\ dedup.calls > 0 => (by_url = dedup.by_url /\ by_title = dedup.by_title)
    /\ LET d == DeduplicateArticles(articles, by_url, by_title)
           before == dedup.passed \cup Range(dedup.unique)
       IN  dedup' = [calls |-> dedup.calls + 1, input |-> articles,
                     by_url |-> by_url, by_title |-> by_title,
                     raised |-> d.raised, unique |-> d.unique,
                     seen_urls |-> d.seen_urls, seen_hashes |-> d.seen_hashes,
                     passed |-> before,
                     repassed |-> \E a \in Range(d.unique) : a \in before]
    /\ UNCHANGED <<task, backend, fetch, job, sched, conn, polite, lanes, ml, news, bm>>

\* the worker process is restarted
DedupRestart ==
    /\ dedup.calls > 0
    /\ dedup' = DedupIdle
    /\ UNCHANGED <<task, backend, fetch, job, sched, conn, polite, lanes, ml, news, bm>>

-----------------------------------------------------------------------------
(* Celery beat, the 'scraping' queue and the worker pool (celery_app.py) *)

\* settings.SCRAPE_INTERVAL_MINUTES: 'scrape-all-sources' every 30 * 60.0 s
SCRAPE_INTERVAL_MINUTES == 30
\* 'scrape-rss-feeds': 'schedule': 15 * 60.0
RssIntervalMinutes == 15
\* 'scrape-all-sources': 'options': {'expires': 15 * 60}
ExpiresMinutes == 15
\* task_time_limit = 30 * 60: the worker process running a task that long is killed
TaskTimeLimitMinutes == 30
\* worker processes consuming the 'scraping' queue (celery's --concurrency)
NumWorkers == 2
\* minutes of wall-clock time followed; time advances in steps of 5 minutes
MaxTime == 60

Workers == 1..NumWorkers

\* app.conf.beat_schedule, the entries whose task is routed to 'scraping'
\* (task_routes: 'app.tasks.scraping_tasks.*' -> queue 'scraping');
\* expires = 0: the entry sets no expiry
BeatSchedule ==
    {[task |-> "scrape_all_sources", every |-> SCRAPE_INTERVAL_MINUTES,
      expires |-> ExpiresMinutes],
     [task |-> "scrape_rss_feeds", every |-> RssIntervalMinutes, expires |-> 0]}

WorkerFree == [task |-> "none", started |-> 0, id |-> 0]

\* results: the result backend's record of every task message sent, in the
\* order sent: the states it went through (task_track_started = True adds
\* STARTED), what ended it, the errors count of the stats it returned and
\* how many times a worker started it
SchedIdle ==
    [now |-> 0, queue |-> <<>>, workers |-> [w \in Workers |-> WorkerFree],
     fired |-> {}, discarded |-> 0, started |-> 0, results |-> <<>>]

\* the result record of a message just sent; sent and started_at are the
\* times beat sent it and a worker started it (-1: not started)
ResultPending(name, now) ==
    [task |-> name, states |-> <<"PENDING">>, cause |-> "none", errors |-> 0, runs |-> 0,
     sent |-> now, started_at |-> 0 - 1]

\* the result backend stores a new state of message id
SetState(results, id, state, cause, errors) ==
    [results EXCEPT ![id] = [@ EXCEPT !.states = Append(@, state),
                                      !.cause = cause, !.errors = errors]]

\* how a task run can end: it returns with stats['errors'] = 0, returns
\* with errors counted, or raises; scrape_all_sources catches every
\* exception of its blocks and always returns its stats
TaskOutcomes(name) ==
    IF name = "scrape_all_sources" THEN {"clean", "errors"}
    ELSE {"clean", "raised"}

\* an entry is due when its interval has elapsed since beat started or since
\* it last ran
Due(e) == sched.now > 0 /\ sched.now % e.every = 0 /\ e.task \notin sched.fired

\* beat sends the task of a due entry: apply_async into the queue. Nothing
\* in beat_schedule or in the task looks at the runs still in progress.
BeatFire(e) ==
    /\ Due(e)
    /\ sched' = [sched EXCEPT
                   !.queue = Append(@, [task |-> e.task, sent |-> sched.now,
                                        expires |-> e.expires,
                                        id |-> Len(sched.results) + 1]),
                   !.results = Append(@, ResultPending(e.task, sched.now)),
                   !.fired = @ \cup {e.task}]
    /\ UNCHANGED <<task, backend, fetch, job, dedup, conn, polite, lanes, ml, news, bm>>

\* faulty variant, for sensitivity analysis: no message ever expires
ExpiredNever(m, now) == FALSE

\* the message's expiry time has passed when a worker receives it
Expired(m, now) == m.expires > 0 /\ now - m.sent >= m.expires

\* a free worker process takes the oldest message (worker_prefetch_multiplier
\* = 1); an expired message is discarded (state REVOKED), any other one
\* starts its task (state STARTED)
WorkerTake(w) ==
    /\ sched.workers[w].task = "none"
    /\ sched.queue # <<>>
    /\ LET m == Head(sched.queue)
       IN  IF Expired(m, sched.now)
           THEN sched' = [sched EXCEPT
                            !.queue = Tail(@), !.discarded = @ + 1,
                            !.results = SetState(@, m.id, "REVOKED", "expired", 0)]
           ELSE sched' = [sched EXCEPT
                            !.queue = Tail(@),
                            !.workers[w] = [task |-> m.task, started |-> sched.now,
                                            id |-> m.id],
                            !.started = @ + 1,
                            !.results = [SetState(@, m.id, "STARTED", "none", 0)
                                            EXCEPT ![m.id].runs = @ + 1,
                                                   ![m.id].started_at = sched.now]]
    /\ UNCHANGED <<task, backend, fetch, job, dedup, conn, polite, lanes, ml, news, bm>>

\* the task a worker runs returns (state SUCCESS, whatever its stats
\* count) or raises (state FAILURE)
WorkerFinish(w) ==
    /\ sched.workers[w].task # "none"
    /\ \E outcome \in TaskOutcomes(sched.workers[w].task) :
          sched' = [sched EXCEPT
                      !.workers[w] = WorkerFree,
                      !.results = SetState(@, sched.workers[w].id,
                                           IF outcome = "raised" THEN "FAILURE" ELSE "SUCCESS",
                                           IF outcome = "raised" THEN "exception" ELSE "returned",
                                           IF outcome = "errors" THEN 1 ELSE 0)]
    /\ UNCHANGED <<task, backend, fetch, job, dedup, conn, polite, lanes, ml, news, bm>>

\* the worker processes whose task reaches task_time_limit in five minutes
TimedOut ==
    {w \in Workers : /\ sched.workers[w].task # "none"
                     /\ sched.now + 5 - sched.workers[w].started >= TaskTimeLimitMinutes}

\* five minutes pass, once beat has sent what is due and no free worker
\* leaves a message waiting; a task that reaches task_time_limit is killed
\* (state FAILURE, TimeLimitExceeded)
TimePasses ==
    /\ sched.now + 5 <= MaxTime
    /\ \A e \in BeatSchedule : ~Due(e)
    /\ sched.queue = <<>> \/ \A w \in Workers : sched.workers[w].task # "none"
    /\ sched' = [sched EXCEPT
                   !.now = @ + 5,
                   !.fired = {},
                   !.workers = [w \in Workers |->
                                  IF w \in TimedOut THEN WorkerFree ELSE @[w]],
                   !.results = [id \in 1..Len(@) |->
                                  IF \E w \in TimedOut : sched.workers[w].id = id
                                  THEN [@[id] EXCEPT !.states = Append(@, "FAILURE"),
                                                     !.cause = "time_limit"]
                                  ELSE @[id]]]
    /\ UNCHANGED <<task, backend, fetch, job, dedup, conn, polite, lanes, ml, news, bm>>


-----------------------------------------------------------------------------
(* ML enrichment: process_article, process_articles_batch (processing_tasks.py) *)

\* longest list passed to process_articles_batch
MaxMlBatch == 2

\* what the enrichment service does with one request: it answers 2xx with a
\* JSON object, answers 2xx with JSON that is not an object, answers 2xx
\* with a body that is not JSON, answers 4xx/5xx, or cannot be reached
MlOutcomes == {"ok", "not_object", "not_json", "status_error", "unreachable"}

\* an article dict before enrichment; absent keys are "absent"
MlArticle(t) == [title |-> t, category |-> "absent", ml_processed |-> "absent"]
MlArticles == {MlArticle(t) : t \in {<<1>>, <<2>>}}

\* send_to_ml_service: client.post raises when the service cannot be reached,
\* raise_for_status on 4xx/5xx (both httpx.HTTPError, logged and re-raised),
\* response.json() on a body that is not JSON
SendToMlService(article, outcome) ==
    CASE outcome = "ok"         -> [raised |-> FALSE, ml_data |-> "object"]
      [] outcome = "not_object" -> [raised |-> FALSE, ml_data |-> "list"]
      [] OTHER                  -> [raised |-> TRUE, ml_data |-> "none"]

\* faulty variant, for sensitivity analysis: process_article without its
\* `except Exception`
ProcessArticleNoExcept(article, outcome, enabled) ==
    IF ~enabled THEN [raised |-> FALSE, article |-> article]
    ELSE IF outcome = "ok"
         THEN [raised |-> FALSE,
               article |-> [article EXCEPT !.category = "ml", !.ml_processed = "True"]]
         ELSE [raised |-> TRUE, article |-> article]

\* process_article(article): returns the article as it is when
\* SEND_TO_ML_SERVICE is off; otherwise the try block enriches it
\* (ml_data.get raises when ml_data is not a dict) and `except Exception`
\* marks it ml_processed = False and returns it
ProcessArticle(article, outcome, enabled) ==
    IF ~enabled THEN [raised |-> FALSE, article |-> article]
    ELSE LET r == SendToMlService(article, outcome)
         IN  IF ~r.raised /\ r.ml_data = "object"
             THEN [raised |-> FALSE,
                   article |-> [article EXCEPT !.category = "ml",
                                               !.ml_processed = "True"]]
             ELSE [raised |-> FALSE,
                   article |-> [article EXCEPT !.ml_processed = "False"]]

\* process_articles_batch: `for article in articles`, from the i-th on; an
\* exception of process_article appends the article as it is
RECURSIVE BatchLoop(_, _, _, _, _)
BatchLoop(articles, outcomes, enabled, i, processed) ==
    IF i > Len(articles) THEN processed
    ELSE LET r == ProcessArticle(articles[i], outcomes[i], enabled)
         IN  BatchLoop(articles, outcomes, enabled, i + 1,
                       Append(processed, IF r.raised THEN articles[i] ELSE r.article))

MlIdle ==
    [pc |-> "idle", op |-> "none", enabled |-> TRUE, input |-> <<>>,
     outcomes |-> <<>>, raised |-> FALSE, output |-> <<>>]

\* process_article(article) with the service answering `outcome`
MlProcessArticle(enabled, article, outcome) ==
    /\ ml.pc = "idle"
    /\ LET r == ProcessArticle(article, outcome, enabled)
       IN  ml' = [pc |-> "done", op |-> "process_article", enabled |-> enabled,
                  input |-> <<article>>, outcomes |-> <<outcome>>,
                  raised |-> r.raised,
                  output |-> IF r.raised THEN <<>> ELSE <<r.article>>]
    /\ UNCHANGED <<task, backend, fetch, job, dedup, sched, conn, polite, lanes, news, bm>>

\* process_articles_batch(articles), the service answering the i-th request
\* with outcomes[i]
MlProcessBatch(enabled, articles, outcomes) ==
    /\ ml.pc = "idle"
    /\ Len(articles) = Len(outcomes)
    /\ ml' = [pc |-> "done", op |-> "process_articles_batch", enabled |-> enabled,
              input |-> articles, outcomes |-> outcomes, raised |-> FALSE,
              output |-> BatchLoop(articles, outcomes, enabled, 1, <<>>)]
    /\ UNCHANGED <<task, backend, fetch, job, dedup, sched, conn, polite, lanes, news, bm>>

\* the caller has the result
MlForget ==
    /\ ml.pc = "done"
    /\ ml' = MlIdle
    /\ UNCHANGED <<task, backend, fetch, job, dedup, sched, conn, polite, lanes, news, bm>>


-----------------------------------------------------------------------------
(* Backend news API: create_news, get_news, delete_news, CacheService *)

\* largest id the news table's sequence hands out
MaxNewsId == 2
NewsIds == 1..MaxNewsId
NewsUrls == {1, 2}
\* the requests in progress at one time; each has its own database session
NewsReqs == {1, 2}

\* the types of the values of news.__dict__ for a News loaded by get_by_id:
\* the columns (published_at, scraped_at, created_at, updated_at are
\* datetimes) and SQLAlchemy's _sa_instance_state
NewsDictTypes == {"int", "str", "NoneType", "datetime", "InstanceState"}

\* faulty variant, for sensitivity analysis: every value can be serialized
JsonDumpsAnything(types) == "ok"

\* CacheService.set: `serialized = json.dumps(value)` inside the try; a value
\* json has no encoding for raises TypeError, which the except turns into
\* `return False` before setex is reached
JsonDumps(types) ==
    IF types \subseteq {"int", "str", "NoneType", "float", "bool", "dict", "list"}
    THEN "ok" ELSE "TypeError"

\* CacheService.set(f"news:{id}", value): the keys news:{id} that hold a value
CacheSet(cache, id, types) == IF JsonDumps(types) = "ok" THEN cache \cup {id} ELSE cache
\* CacheService.get(f"news:{id}")
CacheGet(cache, id) == id \in cache
\* CacheService.delete(f"news:{id}")
CacheDelete(cache, id) == cache \ {id}

\* faulty variant, for sensitivity analysis: the url column is not unique
UrlTakenNever(rows, url) == FALSE

\* News.url is unique = True: the INSERT of a row whose url is in the table
\* fails (IntegrityError)
UrlTaken(rows, url) == \E row \in rows : row.url = url

\* NewsService.get_by_url / NewsService.get_by_id: a row is found
GetByUrl(rows, url) == \E row \in rows : row.url = url
GetById(rows, id) == \E row \in rows : row.id = id

NewsReqIdle ==
    [op |-> "none", pc |-> "idle", arg |-> 0, status |-> 0, existing |-> FALSE,
     stored |-> FALSE, after_delete |-> FALSE]

\* deleted: the ids whose DELETE has answered 200; late_set: a get_news that
\* had read the row reached its cache_service.set after that
NewsIdle ==
    [rows |-> {}, next_id |-> 1, cache |-> {}, deleted |-> {}, late_set |-> FALSE,
     reqs |-> [r \in NewsReqs |-> NewsReqIdle]]

\* INSERTs that requests past their duplicate check may still make
PendingInserts == Cardinality({r \in NewsReqs : news.reqs[r].pc = "insert"})

\* create_news up to `existing = await NewsService.get_by_url(...)`: 409 when
\* a row has the url
CreateNewsCheck(r, url) ==
    /\ news.reqs[r].pc = "idle"
    /\ news.next_id + PendingInserts <= MaxNewsId
    /\ LET existing == GetByUrl(news.rows, url)
           req == [NewsReqIdle EXCEPT !.op = "create", !.arg = url,
                                      !.existing = existing]
       IN  news' = [news EXCEPT !.reqs[r] =
                       IF existing THEN [req EXCEPT !.pc = "done", !.status = 409]
                       ELSE [req EXCEPT !.pc = "insert"]]
    /\ UNCHANGED <<task, backend, fetch, job, dedup, sched, conn, polite, lanes, ml, bm>>

\* create_news from NewsService.create on: db.add, commit; the IntegrityError
\* of a taken url is handled nowhere (500); delete_pattern removes list and
\* trending keys only
CreateNewsCommit(r) ==
    /\ news.reqs[r].pc = "insert"
    /\ IF UrlTaken(news.rows, news.reqs[r].arg)
       THEN news' = [news EXCEPT !.reqs[r].pc = "done", !.reqs[r].status = 500]
       ELSE news' = [news EXCEPT
                       !.rows = @ \cup {[id |-> news.next_id, url |-> news.reqs[r].arg]},
                       !.next_id = @ + 1,
                       !.reqs[r].pc = "done", !.reqs[r].status = 201,
                       !.reqs[r].stored = TRUE]
    /\ UNCHANGED <<task, backend, fetch, job, dedup, sched, conn, polite, lanes, ml, bm>>

\* get_news up to the cache lookup: a hit answers the cached value
GetNewsCache(r, id) ==
    /\ news.reqs[r].pc = "idle"
    /\ LET req == [NewsReqIdle EXCEPT !.op = "get", !.arg = id,
                                      !.after_delete = id \in news.deleted]
       IN  news' = [news EXCEPT !.reqs[r] =
                       IF CacheGet(news.cache, id)
                       THEN [req EXCEPT !.pc = "done", !.status = 200]
                       ELSE [req EXCEPT !.pc = "db"]]
    /\ UNCHANGED <<task, backend, fetch, job, dedup, sched, conn, polite, lanes, ml, bm>>

\* get_news: NewsService.get_by_id, 404 when there is no row
GetNewsDb(r) ==
    /\ news.reqs[r].op = "get" /\ news.reqs[r].pc = "db"
    /\ news' = [news EXCEPT !.reqs[r] =
                   IF GetById(news.rows, news.reqs[r].arg)
                   THEN [@ EXCEPT !.pc = "set"]
                   ELSE [@ EXCEPT !.pc = "done", !.status = 404]]
    /\ UNCHANGED <<task, backend, fetch, job, dedup, sched, conn, polite, lanes, ml, bm>>

\* get_news: increment_views, cache_service.set(cache_key, news.__dict__),
\* return news
GetNewsCacheSet(r) ==
    /\ news.reqs[r].op = "get" /\ news.reqs[r].pc = "set"
    /\ news' = [news EXCEPT
                  !.cache = CacheSet(@, news.reqs[r].arg, NewsDictTypes),
                  !.late_set = @ \/ news.reqs[r].arg \in news.deleted,
                  !.reqs[r].pc = "done", !.reqs[r].status = 200]
    /\ UNCHANGED <<task, backend, fetch, job, dedup, sched, conn, polite, lanes, ml, bm>>

\* delete_news: NewsService.delete (get_by_id, db.delete, commit), 404 when
\* there is no row
DeleteNewsDb(r, id) ==
    /\ news.reqs[r].pc = "idle"
    /\ LET req == [NewsReqIdle EXCEPT !.op = "delete", !.arg = id]
       IN  IF GetById(news.rows, id)
           THEN news' = [news EXCEPT
                           !.rows = {row \in @ : row.id # id},
                           !.reqs[r] = [req EXCEPT !.pc = "invalidate"]]
           ELSE news' = [news EXCEPT
                           !.reqs[r] = [req EXCEPT !.pc = "done", !.status = 404]]
    /\ UNCHANGED <<task, backend, fetch, job, dedup, sched, conn, polite, lanes, ml, bm>>

\* delete_news: cache_service.delete(f"news:{news_id}"), the two
\* delete_pattern calls, return Message
DeleteNewsInvalidate(r) ==
    /\ news.reqs[r].pc = "invalidate"
    /\ news' = [news EXCEPT
                  !.cache = CacheDelete(@, news.reqs[r].arg),
                  !.deleted = @ \cup {news.reqs[r].arg},
                  !.reqs[r].pc = "done", !.reqs[r].status = 200]
    /\ UNCHANGED <<task, backend, fetch, job, dedup, sched, conn, polite, lanes, ml, bm>>

\* the response has been sent; the client may send its next request
NewsRespond(r) ==
    /\ news.reqs[r].pc = "done"
    /\ news' = [news EXCEPT !.reqs[r] = NewsReqIdle]
    /\ UNCHANGED <<task, backend, fetch, job, dedup, sched, conn, polite, lanes, ml, bm>>


-----------------------------------------------------------------------------
(* Bookmarks of one news item: add_bookmark, remove_bookmark *)

\* largest value of bookmarks_count that is followed
MaxBookmarksCount == 3
BmUsers == {1, 2}
\* the requests in progress at one time; each has its own database session
BmReqs == {1, 2}

\* seen_count: news.bookmarks_count as the request's session loaded it
BmReqIdle == [op |-> "none", pc |-> "idle", user |-> 0, seen_count |-> 0, status |-> 0]

\* rows: the users with a row in bookmarks for the news item (the table is
\* UNIQUE (user_id, news_id)); count: the item's bookmarks_count column
BmIdle == [rows |-> {}, count |-> 0, reqs |-> [r \in BmReqs |-> BmReqIdle]]

\* the add_bookmark endpoint up to NewsService.get_by_id, which loads the
\* News row into the request's session
BmAddLoadNews(r, user) ==
    /\ bm.reqs[r].pc = "idle"
    /\ bm.count < MaxBookmarksCount
    /\ bm' = [bm EXCEPT !.reqs[r] = [BmReqIdle EXCEPT !.op = "add", !.pc = "check",
                                                      !.user = user,
                                                      !.seen_count = bm.count]]
    /\ UNCHANGED <<task, backend, fetch, job, dedup, sched, conn, polite, lanes, ml, news>>

\* BookmarkService.add_bookmark: is_bookmarked; None (409) when the row exists
BmAddCheck(r) ==
    /\ bm.reqs[r].op = "add" /\ bm.reqs[r].pc = "check"
    /\ bm' = [bm EXCEPT !.reqs[r] =
                 IF bm.reqs[r].user \in bm.rows
                 THEN [@ EXCEPT !.pc = "done", !.status = 409]
                 ELSE [@ EXCEPT !.pc = "commit"]]
    /\ UNCHANGED <<task, backend, fetch, job, dedup, sched, conn, polite, lanes, ml, news>>

\* BookmarkService.add_bookmark: db.add(bookmark); db.get returns the News
\* the session already holds; news.bookmarks_count += 1; commit. The flush
\* INSERTs the row (IntegrityError on uq_user_news_bookmark, handled
\* nowhere) and UPDATEs bookmarks_count to the value computed in Python.
BmAddCommit(r) ==
    /\ bm.reqs[r].op = "add" /\ bm.reqs[r].pc = "commit"
    /\ IF bm.reqs[r].user \in bm.rows
       THEN bm' = [bm EXCEPT !.reqs[r].pc = "done", !.reqs[r].status = 500]
       ELSE bm' = [bm EXCEPT !.rows = @ \cup {bm.reqs[r].user},
                             !.count = bm.reqs[r].seen_count + 1,
                             !.reqs[r].pc = "done", !.reqs[r].status = 200]
    /\ UNCHANGED <<task, backend, fetch, job, dedup, sched, conn, polite, lanes, ml, news>>

\* BookmarkService.remove_bookmark: select the row; False (404) without one
BmRemoveFind(r, user) ==
    /\ bm.reqs[r].pc = "idle"
    /\ LET req == [BmReqIdle EXCEPT !.op = "remove", !.user = user]
       IN  bm' = [bm EXCEPT !.reqs[r] =
                     IF user \in bm.rows
                     THEN [req EXCEPT !.pc = "load"]
                     ELSE [req EXCEPT !.pc = "done", !.status = 404]]
    /\ UNCHANGED <<task, backend, fetch, job, dedup, sched, conn, polite, lanes, ml, news>>

\* BookmarkService.remove_bookmark: db.delete(bookmark); db.get(News, news_id)
\* loads the News row
BmRemoveLoad(r) ==
    /\ bm.reqs[r].op = "remove" /\ bm.reqs[r].pc = "load"
    /\ bm' = [bm EXCEPT !.reqs[r].pc = "commit", !.reqs[r].seen_count = bm.count]
    /\ UNCHANGED <<task, backend, fetch, job, dedup, sched, conn, polite, lanes, ml, news>>

\* BookmarkService.remove_bookmark: `if news and news.bookmarks_count > 0:
\* news.bookmarks_count -= 1`; commit DELETEs the row and UPDATEs
\* bookmarks_count to the value computed in Python
BmRemoveCommit(r) ==
    /\ bm.reqs[r].op = "remove" /\ bm.reqs[r].pc = "commit"
    /\ bm' = [bm EXCEPT !.rows = @ \ {bm.reqs[r].user},
                        !.count = IF bm.reqs[r].seen_count > 0
                                  THEN bm.reqs[r].seen_count - 1 ELSE @,
                        !.reqs[r].pc = "done", !.reqs[r].status = 200]
    /\ UNCHANGED <<task, backend, fetch, job, dedup, sched, conn, polite, lanes, ml, news>>

\* the response has been sent; the client may send its next request
BmRespond(r) ==
    /\ bm.reqs[r].pc = "done"
    /\ bm' = [bm EXCEPT !.reqs[r] = BmReqIdle]
    /\ UNCHANGED <<task, backend, fetch, job, dedup, sched, conn, polite, lanes, ml, news>>


Init ==
    /\ task = TaskIdle
    /\ backend = BackendIdle
    /\ fetch = FetchIdle
    /\ job = JobIdle
    /\ dedup = DedupIdle
    /\ sched = SchedIdle
    /\ conn = ConnIdle
    /\ polite = PoliteIdle
    /\ lanes = LanesIdle
    /\ ml = MlIdle
    /\ news = NewsIdle
    /\ bm = BmIdle

Next ==
    \/ \E direct \in BOOLEAN, n \in 0..MaxArticles, cfg \in BackendConfigs :
          DeliverSubmit(direct, n, cfg)
    \/ DeliverExecute
    \/ DeliverForget
    \/ \E k \in 0..(MAX_RETRIES + 2), kind \in FailureKinds : FetchStart(k, kind)
    \/ FetchAttempt
    \/ FetchForget

Spec == Init /\ [][Next]_vars

\* one scrape_all_sources run at a time, from start to return
NextJob ==
    \/ \E settings \in JobSettings : JobStart(settings)
    \/ \E responses \in [{RSS_FEEDS[k] : k \in 1..Len(RSS_FEEDS)} -> SourceResponses],
          raises \in {"no", "setup", "late"} : JobScrapeRss(responses, raises)
    \/ \E response \in SourceResponses, raises \in BOOLEAN : JobScrapeApi(response, raises)
    \/ \E cfg \in JobBackendConfigs : JobProcess(cfg)
    \/ JobForget

SpecJob == Init /\ [][NextJob]_vars

\* deduplicate_articles called with lists of Article objects or of their dicts
NextDedup ==
    \/ \E articles \in SeqsUpTo(DedupUniverse, MaxDedupLen), as_dicts \in BOOLEAN,
          by_url \in BOOLEAN, by_title \in BOOLEAN :
          DedupCall(IF as_dicts THEN ToDicts(articles) ELSE articles, by_url, by_title)
    \/ DedupRestart

SpecDedup == Init /\ [][NextDedup]_vars

\* beat and the workers of the 'scraping' queue
NextSched ==
    \/ \E e \in BeatSchedule : BeatFire(e)
    \/ \E w \in Workers : WorkerTake(w)
    \/ \E w \in Workers : WorkerFinish(w)
    \/ TimePasses

SpecSched == Init /\ [][NextSched]_vars

\* connector fetches, one at a time
NextConn ==
    \/ /\ conn.pc = "idle"
       /\ \E variant \in ConnVariants, response \in ConnResponses :
             ConnScrape(variant, response)
    \/ ConnForget

SpecConn == Init /\ [][NextConn]_vars

\* the requests of the worker processes to one source
NextPolite ==
    \/ \E p \in Procs, ok \in BOOLEAN, latency \in 0..MaxLatency : PoliteFetchPage(p, ok, latency)
    \/ \E p \in Procs, latency \in 0..MaxLatency : PoliteFeedParse(p, latency)
    \/ PoliteTick

SpecPolite == Init /\ [][NextPolite]_vars

\* the queues and one worker
NextLanes ==
    \/ \E consumes \in WorkerCommands : LaneStartWorker(consumes)
    \/ \E t \in LaneTasks : LaneSend(t)
    \/ \E i \in LaneSlots, q \in LaneQueues : LaneTake(i, q)
    \/ \E i \in LaneSlots : LaneFinish(i)
    \/ LaneStopWorker

SpecLanes == Init /\ [][NextLanes]_vars

\* enrichment calls, one at a time
NextMl ==
    \/ /\ ml.pc = "idle"
       /\ \E enabled \in BOOLEAN, article \in MlArticles, outcome \in MlOutcomes :
             MlProcessArticle(enabled, article, outcome)
    \/ /\ ml.pc = "idle"
       /\ \E enabled \in BOOLEAN, n \in 0..MaxMlBatch :
             \E articles \in [1..n -> MlArticles], outcomes \in [1..n -> MlOutcomes] :
                MlProcessBatch(enabled, articles, outcomes)
    \/ MlForget

SpecMl == Init /\ [][NextMl]_vars

\* concurrent requests to the news API
NextNews ==
    \/ \E r \in NewsReqs, url \in NewsUrls : CreateNewsCheck(r, url)
    \/ \E r \in NewsReqs : CreateNewsCommit(r)
    \/ \E r \in NewsReqs, id \in NewsIds : GetNewsCache(r, id)
    \/ \E r \in NewsReqs : GetNewsDb(r)
    \/ \E r \in NewsReqs : GetNewsCacheSet(r)
    \/ \E r \in NewsReqs, id \in NewsIds : DeleteNewsDb(r, id)
    \/ \E r \in NewsReqs : DeleteNewsInvalidate(r)
    \/ \E r \in NewsReqs : NewsRespond(r)

SpecNews == Init /\ [][NextNews]_vars

\* concurrent bookmark requests for one news item
NextBookmarks ==
    \/ \E r \in BmReqs, user \in BmUsers : BmAddLoadNews(r, user)
    \/ \E r \in BmReqs : BmAddCheck(r)
    \/ \E r \in BmReqs : BmAddCommit(r)
    \/ \E r \in BmReqs, user \in BmUsers : BmRemoveFind(r, user)
    \/ \E r \in BmReqs : BmRemoveLoad(r)
    \/ \E r \in BmReqs : BmRemoveCommit(r)
    \/ \E r \in BmReqs : BmRespond(r)

SpecBookmarks == Init /\ [][NextBookmarks]_vars

-----------------------------------------------------------------------------
(* Properties of send_articles_to_backend and fetch_page, checked under Spec *)

TaskFinal == task.pc \in {"done", "failed"}

\* the operation fails at every invocation
FetchAlwaysFails == fetch.failfirst > MAX_RETRIES
DeliveryAlwaysFails ==
    /\ task.articles # <<>>
    /\ backend.cfg.bad = 1 \/ backend.cfg.failfirst > DeliveryMaxRetries

\* C1 (as claimed): batch isolation. With 3 batches of which batch 2 always
\* fails and nothing else does, the finished delivery run has delivered
\* batches 1 and 3 and reports sent = size(batch1) + size(batch3).
C1_BatchIsolation ==
    (/\ TaskFinal
     /\ NumBatches(task.articles) = 3
     /\ backend.cfg.bad = 2 /\ backend.cfg.failfirst = 0
     /\ backend.cfg.created # "zero")
    => /\ task.acked = {1, 3}
       /\ task.result = Len(Batches(task.articles)[1]) + Len(Batches(task.articles)[3])

\* C3 (as claimed): retry bound. An always-failing operation is invoked
\* exactly N times for a retry limit N (MAX_RETRIES for fetch_page,
\* max_retries = 5 for send_articles_to_backend) and the failure is then raised.
C3_RetryBoundAsClaimed ==
    /\ (fetch.pc = "done" /\ FetchAlwaysFails)
          => (fetch.calls = MAX_RETRIES /\ fetch.result # "None")
    /\ (TaskFinal /\ DeliveryAlwaysFails)
          => (task.pc = "failed" /\ task.executions = DeliveryMaxRetries)

\* C3 (amended): an always-failing operation is invoked exactly N + 1 times
\* for a retry limit of N retries: fetch_page makes MAX_RETRIES + 1 requests
\* and then returns None (it does not raise); send_articles_to_backend run by
\* a worker is executed max_retries + 1 times and then raises the failure;
\* called directly it is executed once and raises the failure. No operation
\* is ever invoked more often than that.
C3_RetryBound ==
    /\ fetch.calls <= MAX_RETRIES + 1
    /\ task.executions <= DeliveryMaxRetries + 1
    /\ (fetch.pc = "done" /\ FetchAlwaysFails)
          => (fetch.calls = MAX_RETRIES + 1 /\ fetch.result = "None")
    /\ (TaskFinal /\ DeliveryAlwaysFails)
          => /\ task.pc = "failed"
             /\ task.executions =
                  IF task.called_directly THEN 1 ELSE DeliveryMaxRetries + 1

\* C3 witness: a fetch_page call chain on an always-failing URL has ended
C3_Witness ==
    /\ fetch.pc = "done" /\ FetchAlwaysFails
    /\ fetch.calls = MAX_RETRIES + 1 /\ fetch.result = "None"

\* C4 (as claimed): the delivery call of an ingestion job (which calls
\* send_articles_to_backend directly) fails with HTTP 500 k times, k below the
\* attempt limit, and then succeeds: the run ends with every batch delivered
\* and exactly k retries performed.
C4_RetryThenSucceed ==
    (/\ TaskFinal /\ task.called_directly
     /\ task.articles # <<>>
     /\ backend.cfg.kind = "s500" /\ backend.cfg.bad = 0
     /\ backend.cfg.failfirst < DeliveryMaxRetries)
    => /\ task.pc = "done"
       /\ task.last_acked = 1..NumBatches(task.articles)
       /\ task.retries = backend.cfg.failfirst

\* C8 (as claimed): after a request failed with a 4xx status other than 429
\* the operation is not invoked again, in fetch_page and in
\* send_articles_to_backend.
C8_NoRetryOn4xx ==
    /\ fetch.calls_after_4xx = 0
    /\ task.posts_after_4xx = 0

\* C9 (as claimed): at-least-once delivery. When the delivery run has ended,
\* every batch the backend accepts (it is not the always-failing batch, and
\* the backend's initial failures end within the retry budget) has been sent
\* in a request that succeeded; no batch is lost because another one failed.
C9_AtLeastOnce ==
    (TaskFinal /\ backend.cfg.failfirst <= DeliveryMaxRetries)
    => \A b \in 1..NumBatches(task.articles) :
          b # backend.cfg.bad => b \in task.acked

-----------------------------------------------------------------------------
(* Properties of scrape_all_sources, checked under SpecJob *)

JobFinal == job.pc \in {"done", "raised"}

AllFeeds == {RSS_FEEDS[k] : k \in 1..Len(RSS_FEEDS)}

\* an article a feed entry parses to, with title, url and enough content
GoodArticle == Article(<<1>>, <<2>>, MIN_ARTICLE_LENGTH, "en")

\* C2 (as claimed): a job in which one source yields the same article
\* (same title, same url) twice and no other source yields anything, with the
\* backend accepting, ends with delivered = 1 and deduped_out = 1.
C2_JobDedup ==
    (/\ JobFinal
     /\ job.rss_raised = "no" /\ ~job.api_called
     /\ job.feeds[RSS_FEEDS[1]] = [ok |-> TRUE, entries |-> <<GoodArticle, GoodArticle>>]
     /\ \A k \in 2..Len(RSS_FEEDS) : job.feeds[RSS_FEEDS[k]].entries = <<>>
     /\ job.backend_cfg.failfirst = 0)
    => /\ job.pc = "done"
       /\ job.stats.sent_to_backend = 1
       /\ job.deduped_out = 1

RECURSIVE FeedArticles(_)
FeedArticles(k) ==
    IF k > Len(RSS_FEEDS) THEN <<>>
    ELSE ToDicts(Run(job.feeds[RSS_FEEDS[k]])) \o FeedArticles(k + 1)

-----------------------------------------------------------------------------
(* Properties of deduplicate_articles across calls, checked under SpecDedup *)

\* C6 (as claimed): an article that one job's deduplication has passed is
\* rejected as a duplicate by the deduplication of every later job.
C6_CrossJobDuplicate ==
    (dedup.by_url /\ dedup.by_title) => ~dedup.repassed

-----------------------------------------------------------------------------
(* Properties of the beat schedule and the worker pool, checked under SpecSched *)

RunningScrapeAll == {w \in Workers : sched.workers[w].task = "scrape_all_sources"}

\* C7 (as claimed): at most one scrape_all_sources job is running at any
\* time; an occurrence whose predecessor is still running is not started.
C7_NoOverlap == Cardinality(RunningScrapeAll) <= 1


-----------------------------------------------------------------------------
(* Properties of the connectors, checked under SpecConn *)

\* what the parser of the fetch's variant does with entry e
ParsedBy(variant, e) == IF variant = "rss" THEN ParseEntry(e) ELSE ParseApiArticle(e)

\* C11: in both connector variants an entry that fails to parse is skipped
\* without failing the fetch: every entry of the response that parses to an
\* Article is among the articles the fetch returns
C11_EntrySkip ==
    (conn.pc = "done" /\ conn.response.ok) =>
        \A i \in 1..Len(conn.response.entries) :
            LET r == ParsedBy(conn.variant, conn.response.entries[i])
            IN  r.kind = "Article" =>
                    \E j \in 1..Len(conn.articles) : conn.articles[j] = r.article

\* C12: a transport-level failure of a connector fetch is retried: the
\* source is requested again, up to the attempt limit, before the fetch
\* gives up
C12_TransportRetry ==
    (conn.pc = "done" /\ ~conn.response.ok) =>
        (conn.requests > 1 /\ conn.requests <= MAX_RETRIES + 1)

\* C13: no entry published longer ago than the freshness window is passed
\* onward by a connector fetch, in either variant
C13_Freshness ==
    conn.pc = "done" =>
        \A j \in 1..Len(conn.articles) : conn.articles[j].age < SCRAPE_LAST_N_HOURS

-----------------------------------------------------------------------------
(* Properties of the requests to one source, checked under SpecPolite *)

\* C14: two consecutive requests one process issues to the source are at
\* least PolitenessLimit apart
C14_Politeness == polite.own_gap >= 0 => polite.own_gap >= PolitenessLimit

\* C15: a request to the source is at least PolitenessLimit after the
\* request before it when another worker process issued that one
C15_SharedGate == polite.cross_gap >= 0 => polite.cross_gap >= PolitenessLimit


-----------------------------------------------------------------------------
(* Properties of the job status, checked under SpecSched *)

\* the status of the state machine that a result record stands for; Celery
\* has one state for a task that returned, the errors its stats count tell
\* SUCCEEDED from SUCCEEDED-WITH-ERRORS
JobStatus(r) ==
    LET state == r.states[Len(r.states)]
    IN  CASE state = "PENDING" -> "PENDING"
          [] state = "STARTED" -> "RUNNING"
          [] state = "SUCCESS" /\ r.errors = 0 -> "SUCCEEDED"
          [] state = "SUCCESS" /\ r.errors > 0 -> "SUCCEEDED-WITH-ERRORS"
          [] state \in {"FAILURE", "REVOKED"} -> "FAILED"

TerminalStates == {"SUCCESS", "FAILURE", "REVOKED"}

\* the results of the scrape_all_sources jobs
IngestionJobs == {id \in 1..Len(sched.results) : sched.results[id].task = "scrape_all_sources"}

\* the states of a job only move forward: PENDING, then RUNNING, then one
\* terminal state, and nothing after it; the job is started at most once
ForwardOnly(r) ==
    /\ r.states[1] = "PENDING"
    /\ \A i \in 2..Len(r.states) :
          /\ r.states[i - 1] \notin TerminalStates
          /\ r.states[i] # "PENDING"
          /\ r.states[i] = "STARTED" => r.states[i - 1] = "PENDING"
    /\ r.runs <= 1

\* C16: a job's status only moves forward along PENDING, RUNNING, terminal;
\* it ends SUCCEEDED, SUCCEEDED-WITH-ERRORS or FAILED, FAILED only for a
\* scheduler-level fault (its message expired before a worker was free);
\* once terminal it never changes and the job never runs again
C16_JobStatus ==
    \A id \in IngestionJobs :
        LET r == sched.results[id]
        IN  /\ ForwardOnly(r)
            /\ JobStatus(r) = "FAILED" => r.cause = "expired"


-----------------------------------------------------------------------------
(* Properties of the lanes, checked under SpecLanes *)

\* the lane of each task class
LaneOf(module) ==
    CASE module = "scraping_tasks" -> "scraping"
      [] module = "processing_tasks" -> "processing"
      [] module = "cleanup_tasks" -> "cleanup"

\* a message waits in queue q, which the worker consumes, while every pool
\* slot is held by a task of another lane
BlockedByOtherLane(q) ==
    /\ q \in lanes.consumes
    /\ lanes.queue[q] > 0
    /\ \A i \in LaneSlots : lanes.pool[i] \notin {"none", q}

\* C17: every task is routed by its class to its own lane, and a running
\* task of one class never keeps a queued task of another class from
\* starting
C17_LaneIsolation ==
    /\ lanes.sent # "none" => lanes.routed = LaneOf(lanes.sent)
    /\ \A q \in LaneQueues : ~BlockedByOtherLane(q)

-----------------------------------------------------------------------------
(* Properties of the batch partition, checked under Spec *)

\* the concatenation of the batches from the k-th on
RECURSIVE Concat(_, _)
Concat(batches, k) ==
    IF k > Len(batches) THEN <<>> ELSE batches[k] \o Concat(batches, k + 1)

\* C18: the batches of send_articles_to_backend concatenate to the article
\* list, every batch but the last holds BATCH_SIZE articles, the last holds
\* between 1 and BATCH_SIZE, and an execution posts the batches in
\* partition order
C18_BatchPartition ==
    task.executions > 0 =>
        LET batches == Batches(task.articles)
            n == Len(batches)
        IN  /\ Concat(batches, 1) = task.articles
            /\ \A k \in 1..(n - 1) : Len(batches[k]) = BATCH_SIZE
            /\ n > 0 => Len(batches[n]) \in 1..BATCH_SIZE
            /\ Len(task.last_posted) <= n
            /\ \A j \in 1..Len(task.last_posted) : task.last_posted[j] = batches[j]

\* an execution posted three batches, the last one shorter than BATCH_SIZE
C18_Witness ==
    /\ task.pc = "done"
    /\ Len(task.articles) = 2 * BATCH_SIZE + 1
    /\ Len(task.last_posted) = 3
    /\ Len(task.last_posted[3]) = 1

-----------------------------------------------------------------------------
(* Properties of the deduplication state, checked under SpecDedup *)

\* the call's input is a list of Article objects and a duplicate check is on
DedupChecked ==
    /\ dedup.calls > 0
    /\ dedup.by_url \/ dedup.by_title
    /\ \A i \in 1..Len(dedup.input) : dedup.input[i].type = "Article"

\* the state of deduplicate_articles after the articles of `articles`
DedupAfter(articles) == DeduplicateArticles(articles, dedup.by_url, dedup.by_title)

\* C19: once an article has gone through the loop, sending it through again,
\* once or twice, leaves seen_urls and seen_hashes as they are and the
\* article is rejected as a duplicate each time
C19_RecordIdempotent ==
    DedupChecked =>
        \A i \in 1..Len(dedup.input) :
            LET pre == SubSeq(dedup.input, 1, i)
                a == dedup.input[i]
                once == DedupAfter(pre)
                twice == DedupAfter(Append(pre, a))
                thrice == DedupAfter(Append(Append(pre, a), a))
            IN  /\ twice.seen_urls = once.seen_urls
                /\ twice.seen_hashes = once.seen_hashes
                /\ twice.unique = once.unique
                /\ thrice.seen_urls = once.seen_urls
                /\ thrice.seen_hashes = once.seen_hashes
                /\ thrice.unique = once.unique

\* a call under the default settings whose input holds the same article
\* twice in a row returned it once
C19_Witness ==
    /\ DedupChecked
    /\ dedup.by_url /\ dedup.by_title
    /\ Len(dedup.input) = 2
    /\ dedup.input[1] = dedup.input[2]
    /\ dedup.unique = <<dedup.input[1]>>
    /\ Cardinality(dedup.seen_urls) = 1
    /\ Cardinality(dedup.seen_hashes) = 1

\* C20: an article that the loop rejects as a duplicate leaves seen_urls and
\* seen_hashes as they were before it; only an accepted article adds to them
C20_PureRead ==
    DedupChecked =>
        \A i \in 1..Len(dedup.input) :
            LET before == DedupAfter(SubSeq(dedup.input, 1, i - 1))
                after == DedupAfter(SubSeq(dedup.input, 1, i))
            IN  after.unique = before.unique =>
                    /\ after.seen_urls = before.seen_urls
                    /\ after.seen_hashes = before.seen_hashes


-----------------------------------------------------------------------------
(* Properties of the article fingerprint, checked under SpecConn *)

\* C21: two Articles with the same title and the same url have the same
\* content_hash, whatever their content and publication time
C21_Fingerprint ==
    \A i, j \in 1..Len(conn.articles) :
        (conn.articles[i].title = conn.articles[j].title
         /\ conn.articles[i].url = conn.articles[j].url)
            => conn.articles[i].content_hash = conn.articles[j].content_hash

\* a fetch returned two Articles with one title and url that differ in
\* content and in publication time
C21_Witness ==
    /\ conn.pc = "done"
    /\ \E i, j \in 1..Len(conn.articles) :
          /\ conn.articles[i].title = conn.articles[j].title
          /\ conn.articles[i].url = conn.articles[j].url
          /\ conn.articles[i].words # conn.articles[j].words
          /\ conn.articles[i].age # conn.articles[j].age


-----------------------------------------------------------------------------
(* Properties of BaseScraper.run, checked under SpecJob *)

\* an article with title and url, MIN_ARTICLE_LENGTH words or more, an allowed
\* language and no blacklisted keyword in its title
ValidArticle(a) ==
    /\ a.title # <<>> /\ a.url # <<>>
    /\ a.words >= MIN_ARTICLE_LENGTH
    /\ IsAllowedLanguage(a.language)
    /\ ~IsBlacklisted(a.title)

\* the valid articles among those scrape() produced for the feeds from the
\* k-th on, in order
RECURSIVE ValidOfFeeds(_)
ValidOfFeeds(k) ==
    IF k > Len(RSS_FEEDS) THEN <<>>
    ELSE SelectSeq(Scrape(job.feeds[RSS_FEEDS[k]]), ValidArticle) \o ValidOfFeeds(k + 1)

\* C24: BaseScraper.run returns exactly the valid articles that scrape()
\* produced, in order: after the RSS block the job holds the valid articles
\* of every feed
C24_RunReturnsValid ==
    (job.pc = "api" /\ job.rss_raised = "no") =>
        job.all_articles = ToDicts(ValidOfFeeds(1))


-----------------------------------------------------------------------------
(* Retry waits, checked under Spec *)

RECURSIVE Pow2(_)
Pow2(n) == IF n = 0 THEN 1 ELSE 2 * Pow2(n - 1)

\* the k-th wait of a retry sequence is base * 2^(k-1) plus a jitter in [0, base)
Exponential(waits, base) ==
    \A k \in 1..Len(waits) :
        /\ waits[k] >= base * Pow2(k - 1)
        /\ waits[k] < base * Pow2(k - 1) + base

\* C22: the wait before the retry that follows failed attempt k is
\* base_delay * 2^(k-1) plus a jitter in [0, base_delay), for the retries of
\* fetch_page and for those of send_articles_to_backend
C22_Backoff ==
    /\ Exponential(fetch.waits, RETRY_DELAY)
    /\ Exponential(task.countdowns, RetryCountdown)


-----------------------------------------------------------------------------
(* The sent count of a job, checked under Spec *)

\* sum of the created counts the backend answered for the batches i..n that
\* it acknowledged
RECURSIVE AckedCreated(_, _, _, _)
AckedCreated(batches, acked, cfg, i) ==
    IF i > Len(batches) THEN 0
    ELSE (IF i \in acked THEN Created(cfg, batches[i]) ELSE 0)
         + AckedCreated(batches, acked, cfg, i + 1)

\* C27: the sent count a job reports equals the sum of the created counts of
\* the batches the backend acknowledged, in every outcome of the delivery the
\* job calls, a delivery that fails after accepted batches included
C27_SentCount ==
    (task.called_directly /\ task.pc \in {"done", "failed"}) =>
        ReportedSent(task) =
            AckedCreated(Batches(task.articles), task.acked, backend.cfg, 1)


-----------------------------------------------------------------------------
(* Expiry of the periodic job, checked under SpecSched *)

\* C28: a scrape-all-sources occurrence that no worker has started within
\* ExpiresMinutes of being sent is discarded and never executed: whatever
\* ran was started within that time and was not discarded, and a worker
\* that takes a message that old revokes it
C28_Expiry ==
    \A id \in IngestionJobs :
        LET r == sched.results[id]
        IN  /\ r.started_at >= 0 =>
                  /\ r.started_at - r.sent < ExpiresMinutes
                  /\ r.runs = 1
                  /\ r.cause # "expired"
                  /\ r.states[2] = "STARTED"
            /\ r.cause = "expired" =>
                  /\ r.runs = 0 /\ r.started_at < 0
                  /\ r.states = <<"PENDING", "REVOKED">>
            /\ (r.states = <<"PENDING">> /\ sched.now - r.sent >= ExpiresMinutes) =>
                  \E i \in 1..Len(sched.queue) :
                      sched.queue[i].id = id /\ Expired(sched.queue[i], sched.now)

\* one occurrence waited out its expiry and was discarded, a later one was
\* started in time and returned
C28_Witness ==
    /\ \E id \in IngestionJobs :
          /\ sched.results[id].cause = "expired"
          /\ sched.results[id].runs = 0
    /\ \E id \in IngestionJobs :
          /\ sched.results[id].started_at >= 0
          /\ sched.results[id].states = <<"PENDING", "STARTED", "SUCCESS">>


-----------------------------------------------------------------------------
(* What deduplicate_articles returns, checked under SpecDedup *)

\* the lists the properties are evaluated on: the list passed to the call
\* and that list with one more article at its end
DedupInputs == {dedup.input} \cup {Append(dedup.input, a) : a \in DedupUniverse}

\* the loop appended the i-th article of `articles` to unique
Kept(articles, i) ==
    Len(DedupAfter(SubSeq(articles, 1, i)).unique)
        > Len(DedupAfter(SubSeq(articles, 1, i - 1)).unique)

\* the articles of `articles` that the loop kept, from the i-th on, in order
RECURSIVE KeptFrom(_, _)
KeptFrom(articles, i) ==
    IF i > Len(articles) THEN <<>>
    ELSE (IF Kept(articles, i) THEN <<articles[i]>> ELSE <<>>) \o KeptFrom(articles, i + 1)

\* no two articles of the list share a URL or a content hash
NoShared(unique) ==
    \A i, j \in 1..Len(unique) :
        i # j => /\ unique[i].url # unique[j].url
                 /\ unique[i].content_hash # unique[j].content_hash

\* the i-th article is the first of the list with its URL / its content hash
FirstUrl(articles, i) == \A j \in 1..(i - 1) : articles[j].url # articles[i].url
FirstHash(articles, i) ==
    \A j \in 1..(i - 1) : articles[j].content_hash # articles[i].content_hash

BothChecks == DedupChecked /\ dedup.by_url /\ dedup.by_title

\* C29 as stated: the result is the input without the later occurrences of
\* each URL and of each content hash: an article is returned exactly when it
\* is the first of the input with its URL and with its content hash
C29_AsClaimed ==
    BothChecks =>
        \A articles \in DedupInputs :
            \A i \in 1..Len(articles) :
                Kept(articles, i) <=> (FirstUrl(articles, i) /\ FirstHash(articles, i))

\* C29: with both checks enabled the result is a subsequence of the input in
\* the original order; an article is returned exactly when no earlier article
\* of the input has its URL and no earlier returned article has its content
\* hash; no two returned articles share a URL or a content hash
C29_Dedup ==
    BothChecks =>
        \A articles \in DedupInputs :
            LET d == DedupAfter(articles)
            IN  /\ ~d.raised
                /\ d.unique = KeptFrom(articles, 1)
                /\ NoShared(d.unique)
                /\ \A i \in 1..Len(articles) :
                      Kept(articles, i) <=>
                          /\ FirstUrl(articles, i)
                          /\ \A j \in 1..(i - 1) :
                                Kept(articles, j) =>
                                    articles[j].content_hash # articles[i].content_hash

\* a call with both checks enabled dropped the second of two articles with
\* different URLs and one content hash
C29_Witness ==
    /\ BothChecks
    /\ Len(dedup.input) = 2
    /\ dedup.input[1].url # dedup.input[2].url
    /\ dedup.input[1].content_hash = dedup.input[2].content_hash
    /\ dedup.unique = <<dedup.input[1]>>


-----------------------------------------------------------------------------
(* Properties of the enrichment calls, checked under SpecMl *)

\* the enrichment call for the i-th article failed
MlFailed(i) == ml.enabled /\ ml.outcomes[i] # "ok"

\* C23: a failing enrichment service never blocks an article: process_article
\* does not raise and returns the article marked ml_processed = False, and
\* process_articles_batch returns one article per input article, in input
\* order, whatever subset of the enrichment calls fail
C23_NeverBlocks ==
    ml.pc = "done" =>
        /\ ~ml.raised
        /\ Len(ml.output) = Len(ml.input)
        /\ \A i \in 1..Len(ml.input) :
              /\ ml.output[i].title = ml.input[i].title
              /\ MlFailed(i) =>
                    ml.output[i] = [ml.input[i] EXCEPT !.ml_processed = "False"]

\* a batch of two different articles whose first enrichment call failed and
\* whose second succeeded
C23_Witness ==
    /\ ml.pc = "done" /\ ml.op = "process_articles_batch" /\ ml.enabled
    /\ Len(ml.input) = 2
    /\ ml.input[1] # ml.input[2]
    /\ ml.outcomes[1] = "unreachable" /\ ml.outcomes[2] = "ok"
    /\ ml.output[1].ml_processed = "False" /\ ml.output[2].ml_processed = "True"


-----------------------------------------------------------------------------
(* Properties of the news API, checked under SpecNews *)

\* C25: a create request that finds a stored article with its URL answers
\* 409 and stores nothing, and whatever the interleaving of the create
\* requests no two stored articles share a URL
C25_UniqueUrl ==
    /\ \A a, b \in news.rows : a.url = b.url => a = b
    /\ \A r \in NewsReqs :
          (news.reqs[r].op = "create" /\ news.reqs[r].pc = "done") =>
              /\ news.reqs[r].existing => (news.reqs[r].status = 409 /\ ~news.reqs[r].stored)
              /\ news.reqs[r].stored => news.reqs[r].status = 201

\* one create was answered 409 for a stored URL while another, which had
\* raced a create of the same URL, failed at its INSERT
C25_Witness ==
    /\ \E row \in news.rows, r \in NewsReqs :
          /\ news.reqs[r].op = "create" /\ news.reqs[r].pc = "done"
          /\ news.reqs[r].arg = row.url
          /\ news.reqs[r].existing /\ news.reqs[r].status = 409
    /\ \E r \in NewsReqs :
          /\ news.reqs[r].op = "create" /\ news.reqs[r].pc = "done"
          /\ ~news.reqs[r].existing /\ news.reqs[r].status = 500

\* C26: once DELETE /news/{id} has answered 200, every GET /news/{id} that
\* begins later answers 404 and the cache holds no value for the id,
\* whatever GET requests ran concurrently with the delete
C26_DeleteThenGet ==
    /\ news.deleted \cap news.cache = {}
    /\ \A r \in NewsReqs :
          (news.reqs[r].op = "get" /\ news.reqs[r].pc = "done"
           /\ news.reqs[r].after_delete) => news.reqs[r].status = 404

\* a GET that had read the row before the delete reached its cache write
\* after the delete had answered, and a later GET was answered 404
C26_Witness ==
    /\ news.late_set
    /\ \E r \in NewsReqs :
          /\ news.reqs[r].op = "get" /\ news.reqs[r].pc = "done"
          /\ news.reqs[r].after_delete /\ news.reqs[r].status = 404


-----------------------------------------------------------------------------
(* Properties of the bookmarks, checked under SpecBookmarks *)

\* no bookmark request is between its first read and its commit
BmQuiet == \A r \in BmReqs : bm.reqs[r].pc \in {"idle", "done"}

\* C30: after any sequence and any interleaving of add_bookmark and
\* remove_bookmark calls the news item's bookmarks_count equals the number
\* of its bookmark rows and is not negative
C30_CountMatchesRows ==
    BmQuiet => (bm.count = Cardinality(bm.rows) /\ bm.count >= 0)

====
